---------------------------- MODULE Spec2Model ----------------------------
(***************************************************************************)
(* ClassifierEngine of watchmal/engine/engine_classifier.py as a state     *)
(* machine: one engine object per process (rank), the checkpoint files and *)
(* the validation log they share on disk, and the all-gather they meet at. *)
(*                                                                         *)
(* Losses and accuracies are exact rationals [n, d].  Losses are counted   *)
(* in units of 1.0e8, so that the initial best_validation_loss 1.0e10 is   *)
(* the rational 100/1 and fits TLC's 32-bit integers.                    *)
(***************************************************************************)
EXTENDS Integers, Sequences, FiniteSets, TLC

\* ------------------------------------------------------------------ bounds
MaxRanks == 2
MaxEpochs == 2
MaxTrainLen == 1
MaxValLen == 2
MaxTestLen == 2
MaxValInterval == 2
MaxNumValBatches == 3
MaxSaveInterval == 2

\* range(4) of epsilonAlpha2Beta1 and of evaluate: the class labels 0..3
NumClasses == 4

VARIABLES
    ngpus,          \* world size; 1 is the single-process (non-DDP) run
    self,           \* self[r]: the attributes of rank r's engine object
    pc,             \* pc[r]: where rank r's process is
    loc,            \* loc[r]: the local variables of train / validate / evaluate
    error,          \* error[r]: the exception that ended rank r's process
    train_config,   \* the train_config every rank's train() is called with
    data_loaders,   \* number of batches of each named loader
    files,          \* checkpoint files on disk: filename -> checkpoint
    val_log,        \* log_val.csv: number of rows written and the last row
    arrays,         \* the .npy files evaluate has saved
    gather,         \* torch.distributed.all_gather: one slot per rank
    taken,          \* ranks that have read the current gather round
    calls,          \* calls[r]: the public methods rank r's script has called;
                    \* a script calls each of them at most once
    hist            \* history (not program state) the properties are stated on

vars == <<ngpus, self, pc, loc, error, train_config, data_loaders, files,
          val_log, arrays, gather, taken, calls, hist>>

Ranks == 0 .. (ngpus - 1)

\* ------------------------------------------------------------ exact numbers
RECURSIVE GCD(_, _)
GCD(a, b) == IF b = 0 THEN a ELSE GCD(b, a % b)

Rat(n, d) == LET g == GCD(n, d) IN [n |-> n \div g, d |-> d \div g]

RAdd(a, b) == Rat(a.n * b.d + b.n * a.d, a.d * b.d)

\* x / k for a positive integer k
RDiv(a, k) == Rat(a.n, a.d * k)

\* a < b
RLess(a, b) == a.n * b.d < b.n * a.d

RZero == [n |-> 0, d |-> 1]

RECURSIVE RSum(_)
RSum(s) == IF s = <<>> THEN RZero ELSE RAdd(Head(s), RSum(Tail(s)))

\* np.mean of a non-empty array
NpMean(s) == RDiv(RSum(s), Len(s))

RMin(a, b) == IF RLess(b, a) THEN b ELSE a

\* ------------------------------------------------------------- the engine
\* self.best_validation_loss = 1.0e10 (in units of 1.0e8)
InitialBestLoss == [n |-> 100, d |-> 1]

NoOptimizer == [configured |-> FALSE, steps |-> 0, lr |-> 0]
NoScheduler == [configured |-> FALSE, last_epoch |-> 0]
InitialWeights == [origin |-> "init", updates |-> 0]

\* What forward() can return for a batch: the loss and the accuracy depend on
\* data and weights the model does not interpret.
ForwardResults ==
    { [loss |-> [n |-> 1, d |-> 1],   accuracy |-> [n |-> 1, d |-> 1]],
      [loss |-> [n |-> 150, d |-> 1], accuracy |-> [n |-> 0, d |-> 1]] }

\* self.dirpath and str(self.model._get_name())
dirpath == "/dump/"
model_name == "ResNet"

\* save_state: "{}{}{}{}".format(self.dirpath, name of the model, name, ".pth")
FilenameIgnoringName(name) == dirpath \o model_name \o ".pth"
Filename(name) == dirpath \o model_name \o name \o ".pth"

\* f'_epoch_{self.epoch+1}'
EpochName(e) == "_epoch_" \o ToString(e + 1)

\* a checkpoint written by an earlier program, named by restore_config.weight_file
weight_file == "/weights/pretrained.pth"
PretrainedCheckpoint ==
    [global_step |-> 5,
     optimizer   |-> [configured |-> TRUE, steps |-> 5, lr |-> 1],
     state_dict  |-> [origin |-> "pretrained", updates |-> 0]]

NoFiles == [f \in {} |-> PretrainedCheckpoint]

\* the dict save_state hands to torch.save
CheckpointOfOptimizerSteps(r) ==
    [global_step |-> self[r].optimizer.steps,
     optimizer   |-> self[r].optimizer,
     state_dict  |-> self[r].weights]
CheckpointOfStep(r) ==
    [global_step |-> self[r].step,
     optimizer   |-> self[r].optimizer,
     state_dict  |-> self[r].weights]
Checkpoint(r) ==
    [global_step |-> self[r].iteration,
     optimizer   |-> self[r].optimizer,
     state_dict  |-> self[r].weights]

\* torch.save(..., filename): the file is created or replaced
Written(fs, name, ckpt) == (name :> ckpt) @@ fs

\* the engine state at the time of a save, kept as history
Snapshot(r) ==
    [weights   |-> self[r].weights,
     iteration |-> self[r].iteration,
     optimizer |-> self[r].optimizer]

Noted(h, name, r, caller) ==
    [h EXCEPT !.saved = (name :> Snapshot(r)) @@ @,
              !.writers = (name :> ((IF name \in DOMAIN @ THEN @[name] ELSE {})
                                     \cup {<<r, caller>>})) @@ @]

\* save_state raises AttributeError when self.optimizer is None
\* (self.optimizer.state_dict()) or self.iteration was never set
CanSave(r) == self[r].optimizer.configured /\ self[r].iteration >= 0

\* a row of log_train_{rank}.csv; the model keeps its iteration and epoch columns
NoRow == [iteration |-> 0, epoch |-> 0]

InitialSelf ==
    [epoch |-> 0, step |-> 0, iteration |-> -1,
     best_validation_loss |-> InitialBestLoss,
     weights |-> InitialWeights,
     optimizer |-> NoOptimizer, scheduler |-> NoScheduler,
     train_log |-> [rows |-> 0, last |-> NoRow]]

NoMetrics == [iteration |-> 0, epoch |-> 0, loss |-> RZero, accuracy |-> RZero,
              saved_best |-> 0]

\* the locals of validate are gone once it has returned: the iterator bound
\* at lines 363-365 is not handed back, and the next call's val_iter is again
\* the iterator train holds (line 300)
ReturnedHandingBack(l) ==
    [l EXCEPT !.val_batch = 0, !.val_metrics = NoMetrics,
              !.global_val_metrics = <<>>]
Returned(l) ==
    [l EXCEPT !.v_fresh = FALSE, !.v_pos = 0, !.val_batch = 0,
              !.val_metrics = NoMetrics, !.global_val_metrics = <<>>]

InitialLoc ==
    [epoch_it |-> 0,        \* position of range(epochs)
     train_it |-> 0,        \* position of enumerate(train_loader)
     val_iter |-> 0,        \* train's val_iter: batches it has yielded
     v_fresh |-> FALSE,     \* validate's val_iter is bound to a new iterator
     v_pos |-> 0,           \* batches that new iterator has yielded
     val_batch |-> 0,       \* position of range(num_val_batches)
     val_metrics |-> NoMetrics,
     global_val_metrics |-> <<>>,
     eval_it |-> 0,         \* position of enumerate(test loader)
     eval_iterations |-> 0,
     i |-> 0,               \* position of evaluate's range(4)
     lrp_output |-> "list"] \* what the name lrp_output is bound to

InitialHist(n) ==
    [saved |-> [f \in {} |-> [weights |-> InitialWeights, iteration |-> 0,
                              optimizer |-> NoOptimizer]],
     writers |-> [f \in {} |-> {}],
     valCalls |-> [r \in 0 .. (n - 1) |-> <<>>],
     fetched |-> [r \in 0 .. (n - 1) |-> <<>>],
     pending |-> [r \in 0 .. (n - 1) |-> <<>>],
     batchLog |-> [r \in 0 .. (n - 1) |-> <<>>],
     gradCalls |-> [r \in 0 .. (n - 1) |-> <<>>]]

NoSlot == [full |-> FALSE, loss |-> RZero, accuracy |-> RZero]

NoTrainConfig ==
    [set |-> FALSE, epochs |-> 0, val_interval |-> 1, num_val_batches |-> 1,
     checkpointing |-> FALSE, has_save_interval |-> FALSE, save_interval |-> 1]

TrainConfigs ==
    { tc \in
        { [set |-> TRUE, epochs |-> e, val_interval |-> vi,
           num_val_batches |-> nvb, checkpointing |-> c,
           has_save_interval |-> h, save_interval |-> si] :
             e \in 1 .. MaxEpochs, vi \in 1 .. MaxValInterval,
             nvb \in 1 .. MaxNumValBatches, c \in BOOLEAN,
             h \in BOOLEAN, si \in 1 .. MaxSaveInterval } :
        tc.has_save_interval \/ tc.save_interval = 1 }

\* One process, after __init__ (lines 42-94): the model is not wrapped in DDP.
Init ==
    /\ ngpus = 1
    /\ self = [r \in 0 .. (ngpus - 1) |-> InitialSelf]
    /\ pc = [r \in 0 .. (ngpus - 1) |-> "idle"]
    /\ loc = [r \in 0 .. (ngpus - 1) |-> InitialLoc]
    /\ error = [r \in 0 .. (ngpus - 1) |-> "none"]
    /\ train_config = NoTrainConfig
    /\ data_loaders = [train |-> -1, validation |-> -1, test |-> -1]
    /\ files = Written(NoFiles, weight_file, PretrainedCheckpoint)
    /\ val_log = [rows |-> 0, last |-> NoMetrics]
    /\ arrays = {}
    /\ gather = [r \in 0 .. (ngpus - 1) |-> NoSlot]
    /\ taken = {}
    /\ calls = [r \in 0 .. (ngpus - 1) |->
                  [trained |-> FALSE, evaluated |-> FALSE, saved |-> FALSE,
                   restored |-> FALSE]]
    /\ hist = InitialHist(ngpus)

\* isinstance(self.model, DDP)
is_distributed == ngpus > 1

Raise(r, what) ==
    /\ pc' = [pc EXCEPT ![r] = "raised"]
    /\ error' = [error EXCEPT ![r] = what]

\* ------------------------------------------------- configure_* (lines 150-157)
configure_optimizers(r) ==
    /\ pc[r] = "idle"
    /\ ~calls[r].trained
    /\ ~self[r].optimizer.configured
    /\ self' = [self EXCEPT ![r].optimizer =
                   [configured |-> TRUE, steps |-> 0, lr |-> 0]]
    /\ UNCHANGED <<ngpus, pc, loc, error, train_config, data_loaders, files,
                   val_log, arrays, gather, taken, calls, hist>>

configure_scheduler(r) ==
    /\ pc[r] = "idle"
    /\ ~calls[r].trained
    /\ self[r].optimizer.configured
    /\ ~self[r].scheduler.configured
    /\ self' = [self EXCEPT ![r].scheduler =
                   [configured |-> TRUE, last_epoch |-> 0]]
    /\ UNCHANGED <<ngpus, pc, loc, error, train_config, data_loaders, files,
                   val_log, arrays, gather, taken, calls, hist>>

\* ------------------------------------------------------ train (lines 245-341)
\* lines 254-277: every rank's script passes the same train_config and has
\* loaders of the same length; the first rank to call train fixes them.
TrainBegin(r) ==
    /\ pc[r] = "idle"
    /\ ~calls[r].trained
    /\ ~calls[r].evaluated
    /\ \E tc \in TrainConfigs, tl \in 1 .. MaxTrainLen, vl \in 0 .. MaxValLen :
         /\ train_config.set =>
               /\ tc = train_config
               /\ tl = data_loaders.train
               /\ vl = data_loaders.validation
         /\ train_config' = tc
         /\ data_loaders' = [data_loaders EXCEPT !.train = tl, !.validation = vl]
    /\ self' = [self EXCEPT ![r].epoch = 0, ![r].iteration = 0, ![r].step = 0,
                            ![r].best_validation_loss = InitialBestLoss]
    /\ loc' = [loc EXCEPT ![r].val_iter = 0, ![r].epoch_it = 0]
    /\ calls' = [calls EXCEPT ![r].trained = TRUE]
    /\ pc' = [pc EXCEPT ![r] = "epoch_loop"]
    /\ UNCHANGED <<ngpus, error, files, val_log, arrays, gather, taken, hist>>

\* line 280, and lines 339-341 when range(epochs) is exhausted
EpochNext(r) ==
    /\ pc[r] = "epoch_loop"
    /\ IF loc[r].epoch_it < train_config.epochs
       THEN /\ self' = [self EXCEPT ![r].epoch = loc[r].epoch_it, ![r].step = 0]
            /\ loc' = [loc EXCEPT ![r].epoch_it = @ + 1, ![r].train_it = 0]
            /\ pc' = [pc EXCEPT ![r] = "batch_loop"]
       ELSE /\ pc' = [pc EXCEPT ![r] = "idle"]
            /\ UNCHANGED <<self, loc>>
    /\ UNCHANGED <<ngpus, error, train_config, data_loaders, files, val_log,
                   arrays, gather, taken, calls, hist>>

\* line 299: if self.iteration % val_interval == 0
ValidationDueByStep(r) == self[r].step % train_config.val_interval = 0
ValidationDue(r) == self[r].iteration % train_config.val_interval = 0

\* lines 296-300 and 356-358: the next training batch, and the entry of
\* validate when it is due
BatchNext(r) ==
    /\ pc[r] = "batch_loop"
    /\ IF loc[r].train_it < data_loaders.train
       THEN LET s == [self EXCEPT ![r].step = loc[r].train_it] IN
            /\ self' = s
            /\ IF ValidationDue(r)
               THEN /\ loc' = [loc EXCEPT
                          ![r].train_it = @ + 1,
                          ![r].val_metrics = [NoMetrics EXCEPT
                                                !.iteration = self[r].iteration],
                          ![r].val_batch = 0]
                    /\ hist' = [hist EXCEPT
                          !.valCalls[r] = Append(@, self[r].train_log.rows),
                          !.fetched[r] = <<>>,
                          !.batchLog[r] = <<"validate">>]
                    /\ pc' = [pc EXCEPT ![r] = "val_loop"]
               ELSE /\ loc' = [loc EXCEPT ![r].train_it = @ + 1]
                    /\ hist' = [hist EXCEPT !.batchLog[r] = <<>>]
                    /\ pc' = [pc EXCEPT ![r] = "forward"]
       ELSE /\ pc' = [pc EXCEPT ![r] = "epoch_end"]
            /\ UNCHANGED <<self, loc, hist>>
    /\ UNCHANGED <<ngpus, error, train_config, data_loaders, files, val_log,
                   arrays, gather, taken, calls>>

\* --------------------------------------------------- validate (lines 343-411)
\* next(val_iter) raises StopIteration: the iterator has yielded every batch
Exhausted(l) ==
    IF l.v_fresh THEN l.v_pos >= data_loaders.validation
                 ELSE l.val_iter >= data_loaders.validation

\* lines 363-365: validate's name val_iter is bound to a new iterator; the
\* iterator train holds is a different object and is left as it is
NotRecreated(l) == l
Recreated(l) == [l EXCEPT !.v_fresh = TRUE, !.v_pos = 0]

\* the batches the iterator validate's val_iter names has yielded
Position(l) == IF l.v_fresh THEN l.v_pos ELSE l.val_iter

\* next() on it: validate's val_iter is train's iterator object until rebound
Advanced(l) ==
    IF l.v_fresh THEN [l EXCEPT !.v_pos = @ + 1] ELSE [l EXCEPT !.val_iter = @ + 1]

\* lines 360-366: the iterator val_data is read from
Source(l) == IF Exhausted(l) THEN Recreated(l) ELSE l

\* lines 359-381: one pass of the loop over range(num_val_batches), and the
\* local means once the range is exhausted
ValBatch(r) ==
    /\ pc[r] = "val_loop"
    /\ IF loc[r].val_batch < train_config.num_val_batches
       THEN LET src == Source(loc[r]) IN
            IF Exhausted(src)
            THEN /\ Raise(r, "StopIteration")
                 /\ loc' = [loc EXCEPT ![r] = src]
                 /\ UNCHANGED <<gather, hist>>
            ELSE \E val_res \in ForwardResults :
                 /\ loc' = [loc EXCEPT ![r] =
                       [Advanced(src) EXCEPT
                          !.val_batch = @ + 1,
                          !.val_metrics.loss = RAdd(@, val_res.loss),
                          !.val_metrics.accuracy = RAdd(@, val_res.accuracy)]]
                 /\ hist' = [hist EXCEPT
                       !.fetched[r] = Append(@, Position(src) + 1)]
                 /\ UNCHANGED <<pc, error, gather>>
       ELSE LET loss == RDiv(loc[r].val_metrics.loss, train_config.num_val_batches)
                accuracy == RDiv(loc[r].val_metrics.accuracy,
                                 train_config.num_val_batches)
                local == [full |-> TRUE, loss |-> loss, accuracy |-> accuracy]
            IN
            /\ hist' = [hist EXCEPT !.pending[r] = Append(@, local)]
            /\ IF is_distributed
               THEN /\ loc' = [loc EXCEPT ![r].val_metrics.loss = loss,
                                          ![r].val_metrics.accuracy = accuracy]
                    /\ pc' = [pc EXCEPT ![r] = "val_gather"]
               ELSE /\ loc' = [loc EXCEPT ![r].val_metrics.loss = loss,
                                          ![r].val_metrics.accuracy = accuracy,
                                          ![r].global_val_metrics = <<local>>]
                    /\ pc' = [pc EXCEPT ![r] = "val_record"]
            /\ UNCHANGED <<error, gather>>
    /\ UNCHANGED <<ngpus, self, train_config, data_loaders, files, val_log,
                   arrays, taken, calls>>

\* get_synchronized_metrics (lines 180-201), entered from line 384: the rank
\* hands its tensors to all_gather ...
GatherSend(r) ==
    /\ pc[r] = "val_gather"
    /\ ~gather[r].full
    /\ gather' = [gather EXCEPT ![r] =
                     [full |-> TRUE, loss |-> loc[r].val_metrics.loss,
                      accuracy |-> loc[r].val_metrics.accuracy]]
    /\ pc' = [pc EXCEPT ![r] = "val_wait"]
    /\ UNCHANGED <<ngpus, self, loc, error, train_config, data_loaders, files,
                   val_log, arrays, taken, calls, hist>>

\* torch.cat(global_tensor): the values of ranks 0 .. ngpus-1, in rank order
GatheredOwnOnly(r) == << gather[r] >>
Gathered(r) == [q \in 1 .. ngpus |-> gather[q - 1]]

\* ... and all_gather returns on a rank once every rank has handed in
GatherReceive(r) ==
    /\ pc[r] = "val_wait"
    /\ r \notin taken
    /\ \A q \in Ranks : gather[q].full
    /\ loc' = [loc EXCEPT ![r].global_val_metrics = Gathered(r)]
    /\ IF taken \cup {r} = Ranks
       THEN /\ taken' = {}
            /\ gather' = [q \in Ranks |-> NoSlot]
       ELSE /\ taken' = taken \cup {r}
            /\ UNCHANGED gather
    /\ pc' = [pc EXCEPT ![r] = "val_record"]
    /\ UNCHANGED <<ngpus, self, error, train_config, data_loaders, files,
                   val_log, arrays, calls, hist>>

\* validate returns into train at line 303: forward on the training batch
AfterValidateSkippingForward == "backward"
AfterValidate == "forward"

\* line 390: if self.rank == 0
IsRankZero(r) == r = 0

\* line 399: val_metrics["loss"] < self.best_validation_loss
NotWorse(loss, best) == ~RLess(best, loss)
IsWorse(loss, best) == RLess(best, loss)
IsBetter(loss, best) == RLess(loss, best)

\* line 406: if checkpointing
Checkpointing(tc) == tc.checkpointing

Losses(g) == [k \in 1 .. Len(g) |-> g[k].loss]
Accuracies(g) == [k \in 1 .. Len(g) |-> g[k].accuracy]

\* lines 390-411: rank 0 aggregates, saves and logs; validate returns to line 303
ValRecord(r) ==
    /\ pc[r] = "val_record"
    /\ IF IsRankZero(r)
       THEN LET g == loc[r].global_val_metrics
                loss == NpMean(Losses(g))
                accuracy == NpMean(Accuracies(g))
                better == IsBetter(loss, self[r].best_validation_loss)
                latest == Checkpointing(train_config)
                row == [loc[r].val_metrics EXCEPT
                          !.loss = loss, !.accuracy = accuracy,
                          !.epoch = self[r].epoch,
                          !.saved_best = IF better THEN 1 ELSE 0]
                f1 == IF better
                      THEN Written(files, Filename("BEST"), Checkpoint(r))
                      ELSE files
                h1 == IF better
                      THEN Noted(hist, Filename("BEST"), r, "validate")
                      ELSE hist
                f2 == IF latest THEN Written(f1, Filename(""), Checkpoint(r))
                      ELSE f1
                h2 == IF latest THEN Noted(h1, Filename(""), r, "validate")
                      ELSE h1
                events == (IF better THEN <<"save_BEST">> ELSE <<>>)
                          \o (IF latest THEN <<"save">> ELSE <<>>)
            IN
            /\ self' = [self EXCEPT ![r].best_validation_loss =
                           IF better THEN loss ELSE @]
            /\ IF (better \/ latest) /\ ~CanSave(r)
               THEN /\ Raise(r, "AttributeError")
                    /\ loc' = [loc EXCEPT ![r].val_metrics =
                                  [row EXCEPT !.saved_best = 0]]
                    /\ hist' = [hist EXCEPT !.pending =
                                   [q \in Ranks |-> Tail(hist.pending[q])]]
                    /\ UNCHANGED <<files, val_log>>
               ELSE /\ files' = f2
                    /\ hist' = [h2 EXCEPT
                          !.pending = [q \in Ranks |-> Tail(hist.pending[q])],
                          !.batchLog[r] = @ \o events]
                    /\ loc' = [loc EXCEPT ![r] = Returned(@)]
                    /\ val_log' = [rows |-> val_log.rows + 1, last |-> row]
                    /\ pc' = [pc EXCEPT ![r] = AfterValidate]
                    /\ UNCHANGED error
       ELSE /\ pc' = [pc EXCEPT ![r] = AfterValidate]
            /\ loc' = [loc EXCEPT ![r] = Returned(@)]
            /\ UNCHANGED <<self, error, files, val_log, hist>>
    /\ UNCHANGED <<ngpus, train_config, data_loaders, arrays, gather, taken,
                   calls>>

\* ------------------------------------------- train, after validate (303-337)
\* lines 303-307: res = self.forward(True); the loss and accuracy it returns
\* go to columns of the training log the model does not keep
Forward(r) ==
    /\ pc[r] = "forward"
    /\ hist' = [hist EXCEPT !.batchLog[r] = Append(@, "forward")]
    /\ pc' = [pc EXCEPT ![r] = "backward"]
    /\ UNCHANGED <<ngpus, self, loc, error, train_config, data_loaders, files,
                   val_log, arrays, gather, taken, calls>>

\* lines 310-323: self.backward() (lines 239-243), the counters, the log row
Backward(r) ==
    /\ pc[r] = "backward"
    /\ IF ~self[r].optimizer.configured
       THEN /\ Raise(r, "AttributeError")
            /\ UNCHANGED <<self, hist>>
       ELSE /\ self' = [self EXCEPT
                  ![r].weights.updates = @ + 1,
                  ![r].optimizer.steps = @ + 1,
                  ![r].step = @ + 1,
                  ![r].iteration = @ + 1,
                  ![r].train_log =
                      [rows |-> @.rows + 1,
                       last |-> [iteration |-> self[r].iteration + 1,
                                 epoch |-> self[r].epoch]]]
            /\ hist' = [hist EXCEPT !.batchLog[r] = Append(@, "backward")]
            /\ pc' = [pc EXCEPT ![r] = "batch_loop"]
            /\ UNCHANGED error
    /\ UNCHANGED <<ngpus, loc, train_config, data_loaders, files, val_log,
                   arrays, gather, taken, calls>>

\* lines 333-334: the scheduler sets the optimizer's learning rate
SchedulerStep(r) ==
    /\ pc[r] = "epoch_end"
    /\ IF self[r].scheduler.configured
       THEN self' = [self EXCEPT ![r].scheduler.last_epoch = @ + 1,
                                 ![r].optimizer.lr = @ + 1]
       ELSE UNCHANGED self
    /\ pc' = [pc EXCEPT ![r] = "epoch_save"]
    /\ UNCHANGED <<ngpus, loc, error, train_config, data_loaders, files,
                   val_log, arrays, gather, taken, calls, hist>>

\* line 336: (save_interval is not None) and ((self.epoch+1)%save_interval == 0)
EpochSaveDueZeroBased(r) ==
    /\ train_config.has_save_interval
    /\ self[r].epoch % train_config.save_interval = 0
EpochSaveDue(r) ==
    /\ train_config.has_save_interval
    /\ (self[r].epoch + 1) % train_config.save_interval = 0

\* lines 336-337, on every rank
EpochSave(r) ==
    /\ pc[r] = "epoch_save"
    /\ IF EpochSaveDue(r)
       THEN IF CanSave(r)
            THEN /\ files' = Written(files, Filename(EpochName(self[r].epoch)),
                                     Checkpoint(r))
                 /\ hist' = Noted(hist, Filename(EpochName(self[r].epoch)), r,
                                  "train")
                 /\ pc' = [pc EXCEPT ![r] = "epoch_loop"]
                 /\ UNCHANGED error
            ELSE /\ Raise(r, "AttributeError")
                 /\ UNCHANGED <<files, hist>>
       ELSE /\ pc' = [pc EXCEPT ![r] = "epoch_loop"]
            /\ UNCHANGED <<error, files, hist>>
    /\ UNCHANGED <<ngpus, self, loc, train_config, data_loaders, val_log,
                   arrays, gather, taken, calls>>

\* ------------------------------------- save / restore called by the script
\* save_state(name) (lines 534-565); of the scripts that call it before train
\* the model follows those in which it raises
save_state(r, name) ==
    /\ pc[r] = "idle"
    /\ ~calls[r].saved
    /\ calls[r].trained \/ ~CanSave(r)
    /\ calls' = [calls EXCEPT ![r].saved = TRUE]
    /\ IF CanSave(r)
       THEN /\ files' = Written(files, Filename(name), Checkpoint(r))
            /\ hist' = Noted(hist, Filename(name), r, "script")
            /\ UNCHANGED <<pc, error>>
       ELSE /\ Raise(r, "AttributeError")
            /\ UNCHANGED <<files, hist>>
    /\ UNCHANGED <<ngpus, self, loc, train_config, data_loaders, val_log,
                   arrays, gather, taken>>

\* lines 590-597: what the engine's attributes are after loading checkpoint c
RestoredKeepingIteration(s, c) ==
    [s EXCEPT !.weights = c.state_dict,
              !.optimizer = IF s.optimizer.configured THEN c.optimizer ELSE @]
Restored(s, c) ==
    [s EXCEPT !.weights = c.state_dict,
              !.optimizer = IF s.optimizer.configured THEN c.optimizer ELSE @,
              !.iteration = c.global_step]

\* restore_state_from_file(weight_file) (lines 580-599)
restore_state_from_file(r, f) ==
    /\ pc[r] = "idle"
    /\ ~calls[r].restored
    /\ calls' = [calls EXCEPT ![r].restored = TRUE]
    /\ IF f \in DOMAIN files
       THEN /\ self' = [self EXCEPT ![r] = Restored(self[r], files[f])]
            /\ UNCHANGED <<pc, error>>
       ELSE /\ Raise(r, "FileNotFoundError")
            /\ UNCHANGED self
    /\ UNCHANGED <<ngpus, loc, train_config, data_loaders, files, val_log,
                   arrays, gather, taken, hist>>

\* restore_best_state (lines 567-574)
restore_best_state(r) == restore_state_from_file(r, Filename("BEST"))

\* restore_state (lines 576-578): the file the restore config names
restore_state(r) ==
    \E f \in DOMAIN files \cup {weight_file} : restore_state_from_file(r, f)

\* --------------------------------------------------- evaluate (lines 413-529)
\* epsilonAlpha2Beta1 (lines 96-122): one `with Gradient(...)` per class label
\* i of range(4); counts[c] is the number of entries made for label c
GradientEntries(counts) == [c \in 0 .. (NumClasses - 1) |-> counts[c] + 1]

NoEntries == [c \in 0 .. (NumClasses - 1) |-> 0]

\* line 122: epsilonAlpha2Beta1 returns np.array(...) values, and line 459
\* binds the name lrp_output (until then the list of line 433) to the first
EpsilonAlpha2Beta1Returns == "ndarray"

\* lines 451 and 460: .extend is a method of a list; a numpy array, and a row
\* of one, has none
HasExtend(kind) == kind = "list"

\* lines 516-521
SavedArrays ==
    {"indices.npy", "labels.npy", "predictions.npy", "softmax.npy",
     "lrp_output.npy", "relevance.npy"}

\* lines 413-434; the script's test loader has the same length on every rank.
\* Nothing evaluate does depends on what train leaves behind, and the model
\* follows it in the scripts that do not train.
EvaluateBegin(r) ==
    /\ pc[r] = "idle"
    /\ ~calls[r].evaluated
    /\ ~calls[r].trained
    /\ \E n \in 0 .. MaxTestLen :
         /\ data_loaders.test >= 0 => n = data_loaders.test
         /\ data_loaders' = [data_loaders EXCEPT !.test = n]
    /\ calls' = [calls EXCEPT ![r].evaluated = TRUE]
    /\ loc' = [loc EXCEPT ![r].eval_it = 0, ![r].eval_iterations = 0,
                          ![r].lrp_output = "list", ![r].i = 0]
    /\ hist' = [hist EXCEPT !.gradCalls[r] = <<>>]
    /\ pc' = [pc EXCEPT ![r] = "eval_loop"]
    /\ UNCHANGED <<ngpus, self, error, train_config, files, val_log, arrays,
                   gather, taken>>

\* lines 437-529, one step at a time
EvaluateStep(r) ==
    /\ pc[r] \in {"eval_loop", "eval_lrp", "eval_gather", "eval_wait", "eval_save"}
    /\ CASE pc[r] = "eval_loop" ->
            \* lines 437-452, and line 477 once the loader is exhausted
            IF loc[r].eval_it < data_loaders.test
            THEN IF HasExtend(loc[r].lrp_output)
                 THEN /\ loc' = [loc EXCEPT ![r].i = 0]
                      /\ hist' = [hist EXCEPT
                            !.gradCalls[r] = Append(@, NoEntries)]
                      /\ pc' = [pc EXCEPT ![r] = "eval_lrp"]
                      /\ UNCHANGED <<error, arrays, gather, taken>>
                 ELSE /\ Raise(r, "AttributeError")
                      /\ UNCHANGED <<loc, hist, arrays, gather, taken>>
            ELSE IF loc[r].eval_iterations = 0
                 THEN /\ Raise(r, "ZeroDivisionError")
                      /\ UNCHANGED <<loc, hist, arrays, gather, taken>>
                 ELSE /\ pc' = [pc EXCEPT ![r] =
                            IF is_distributed THEN "eval_gather" ELSE "eval_save"]
                      /\ UNCHANGED <<loc, hist, error, arrays, gather, taken>>
         [] pc[r] = "eval_lrp" ->
            \* lines 453-461, and lines 463-474 once range(4) is exhausted
            IF loc[r].i < NumClasses
            THEN /\ hist' = [hist EXCEPT
                       !.gradCalls[r][loc[r].eval_iterations + 1] =
                           GradientEntries(@)]
                 /\ IF HasExtend(EpsilonAlpha2Beta1Returns)
                    THEN /\ loc' = [loc EXCEPT
                               ![r].lrp_output = EpsilonAlpha2Beta1Returns,
                               ![r].i = @ + 1]
                         /\ UNCHANGED <<pc, error>>
                    ELSE /\ loc' = [loc EXCEPT
                               ![r].lrp_output = EpsilonAlpha2Beta1Returns]
                         /\ Raise(r, "AttributeError")
                 /\ UNCHANGED <<arrays, gather, taken>>
            ELSE /\ loc' = [loc EXCEPT ![r].eval_iterations = @ + 1,
                                       ![r].eval_it = @ + 1]
                 /\ pc' = [pc EXCEPT ![r] = "eval_loop"]
                 /\ UNCHANGED <<hist, error, arrays, gather, taken>>
         [] pc[r] = "eval_gather" ->
            \* lines 494-497: the rank hands its results to all_gather
            /\ ~gather[r].full
            /\ gather' = [gather EXCEPT ![r].full = TRUE]
            /\ pc' = [pc EXCEPT ![r] = "eval_wait"]
            /\ UNCHANGED <<loc, hist, error, arrays, taken>>
         [] pc[r] = "eval_wait" ->
            /\ r \notin taken
            /\ \A q \in Ranks : gather[q].full
            /\ IF taken \cup {r} = Ranks
               THEN /\ taken' = {}
                    /\ gather' = [q \in Ranks |-> NoSlot]
               ELSE /\ taken' = taken \cup {r}
                    /\ UNCHANGED gather
            /\ pc' = [pc EXCEPT ![r] = "eval_save"]
            /\ UNCHANGED <<loc, hist, error, arrays>>
         [] pc[r] = "eval_save" ->
            \* lines 510-529
            /\ arrays' = IF IsRankZero(r) THEN arrays \cup SavedArrays ELSE arrays
            /\ pc' = [pc EXCEPT ![r] = "idle"]
            /\ UNCHANGED <<loc, hist, error, gather, taken>>
    /\ UNCHANGED <<ngpus, self, train_config, data_loaders, files, val_log,
                   calls>>

\* ------------------------------------------------------------ the program
Next ==
    \/ \E r \in Ranks : configure_optimizers(r)
    \/ \E r \in Ranks : configure_scheduler(r)
    \/ \E r \in Ranks : TrainBegin(r)
    \/ \E r \in Ranks : EpochNext(r)
    \/ \E r \in Ranks : BatchNext(r)
    \/ \E r \in Ranks : ValBatch(r)
    \/ \E r \in Ranks : ValRecord(r)
    \/ \E r \in Ranks : Forward(r)
    \/ \E r \in Ranks : Backward(r)
    \/ \E r \in Ranks : SchedulerStep(r)
    \/ \E r \in Ranks : EpochSave(r)
    \/ \E r \in Ranks, name \in {"", "BEST"} : save_state(r, name)
    \/ \E r \in Ranks : restore_state(r)
    \/ \E r \in Ranks : restore_best_state(r)
    \/ \E r \in Ranks : EvaluateBegin(r)
    \/ \E r \in Ranks : EvaluateStep(r)

Spec == Init /\ [][Next]_vars

\* ------------------------------------------------- the distributed program
\* The runs of a DDP job the model follows: every rank's script configures the
\* optimizer and the scheduler and calls train with the same config, on a
\* training set of one batch per rank.
DDPConfigs ==
    { tc \in TrainConfigs : tc.num_val_batches = 1 /\ tc.val_interval = 1 }

InitDDP ==
    /\ ngpus \in 2 .. MaxRanks
    /\ self = [r \in 0 .. (ngpus - 1) |->
                [InitialSelf EXCEPT
                   !.optimizer = [configured |-> TRUE, steps |-> 0, lr |-> 0],
                   !.scheduler = [configured |-> TRUE, last_epoch |-> 0]]]
    /\ pc = [r \in 0 .. (ngpus - 1) |-> "idle"]
    /\ loc = [r \in 0 .. (ngpus - 1) |-> InitialLoc]
    /\ error = [r \in 0 .. (ngpus - 1) |-> "none"]
    /\ train_config \in DDPConfigs
    /\ data_loaders = [train |-> 1, validation |-> MaxValLen, test |-> -1]
    /\ files = NoFiles
    /\ val_log = [rows |-> 0, last |-> NoMetrics]
    /\ arrays = {}
    /\ gather = [r \in 0 .. (ngpus - 1) |-> NoSlot]
    /\ taken = {}
    /\ calls = [r \in 0 .. (ngpus - 1) |->
                  [trained |-> FALSE, evaluated |-> FALSE, saved |-> FALSE,
                   restored |-> FALSE]]
    /\ hist = InitialHist(ngpus)

NextDDP ==
    \/ \E r \in Ranks : TrainBegin(r)
    \/ \E r \in Ranks : EpochNext(r)
    \/ \E r \in Ranks : BatchNext(r)
    \/ \E r \in Ranks : ValBatch(r)
    \/ \E r \in Ranks : GatherSend(r)
    \/ \E r \in Ranks : GatherReceive(r)
    \/ \E r \in Ranks : ValRecord(r)
    \/ \E r \in Ranks : Forward(r)
    \/ \E r \in Ranks : Backward(r)
    \/ \E r \in Ranks : SchedulerStep(r)
    \/ \E r \in Ranks : EpochSave(r)

SpecDDP == InitDDP /\ [][NextDDP]_vars

\* ================================================================ properties
\* where a rank is inside validate
ValidatePcs == {"val_loop", "val_gather", "val_wait", "val_record"}

\* where a rank is inside the body of the loop over the training batches
BatchPcs == ValidatePcs \cup {"forward", "backward"}

\* the global validation loss rank r's validate is about to compare (line 392)
GlobalLoss(r) == NpMean(Losses(loc[r].global_val_metrics))

\* rank r's step leaves validate's rank-0 block
RecordStep(r) == pc[r] = "val_record" /\ pc'[r] # "val_record"

\* C1: on rank 0 best_validation_loss is the minimum of 1.0e10 and every global
\* validation loss computed so far in the train run: train starts it at 1.0e10,
\* every validate call of rank 0 leaves it at the minimum of its old value and
\* the call's loss, and no other step changes it; so it never increases and
\* changes only in a validate call whose loss is strictly lower.
C1_BestTracksMinimum ==
    [][ LET old == self[0].best_validation_loss
            new == self'[0].best_validation_loss
        IN  /\ (pc[0] = "idle" /\ pc'[0] = "epoch_loop") => new = InitialBestLoss
            /\ RecordStep(0) => new = RMin(old, GlobalLoss(0))
            /\ (new # old /\ pc'[0] # "epoch_loop") =>
                  /\ RecordStep(0)
                  /\ RLess(GlobalLoss(0), old)
                  /\ RLess(new, old)
      ]_vars

\* C1 witness: after an improvement, a later validation with a higher loss has
\* been logged and has left the best loss alone
C1_Witness ==
    /\ val_log.rows >= 2
    /\ RLess(self[0].best_validation_loss, InitialBestLoss)
    /\ RLess(self[0].best_validation_loss, val_log.last.loss)

\* C2: restore_state_from_file on a file save_state wrote leaves the weights
\* and the iteration counter as they were at the save and, when an optimizer
\* is configured, the optimizer state as it was at the save, whatever was
\* trained between the save and the restore.
C2_RoundTrip ==
    [][ \A r \in Ranks : \A f \in DOMAIN hist.saved :
          restore_state_from_file(r, f) =>
            /\ self'[r].weights = hist.saved[f].weights
            /\ self'[r].iteration = hist.saved[f].iteration
            /\ self[r].optimizer.configured =>
                  self'[r].optimizer = hist.saved[f].optimizer
      ]_vars

\* C2 witness: an engine that trained on after a save and was then restored
\* from the saved file: its weights are those of the save, not of the end of
\* training
C2_Witness ==
    \E r \in Ranks : \E f \in DOMAIN hist.saved :
        /\ calls[r].trained /\ calls[r].restored /\ pc[r] = "idle"
        /\ self[r].weights.origin = "init"
        /\ self[r].weights.updates < self[r].train_log.rows
        /\ self[r].weights = hist.saved[f].weights
        /\ self[r].iteration = hist.saved[f].iteration
        /\ self[r].iteration < self[r].train_log.rows

\* C3: with a non-empty validation loader no StopIteration leaves validate, and
\* every validate call that has finished its loop has read exactly
\* num_val_batches batches of the loader (and one in its loop has read as many
\* as the passes it has made).
C3_ValidateReadsNumValBatches ==
    \A r \in Ranks :
        data_loaders.validation >= 1 =>
            /\ error[r] # "StopIteration"
            /\ \A k \in 1 .. Len(hist.fetched[r]) :
                  hist.fetched[r][k] \in 1 .. data_loaders.validation
            /\ pc[r] = "val_loop" => Len(hist.fetched[r]) = loc[r].val_batch
            /\ (pc[r] # "val_loop" /\ hist.valCalls[r] # <<>>) =>
                  Len(hist.fetched[r]) = train_config.num_val_batches

\* C3 witness: the second validate call over a loader of one batch, with two
\* batches per call, has returned: the iterator was exhausted on entry and the
\* new one ran out again in the middle of the call
C3_Witness ==
    \E r \in Ranks :
        /\ data_loaders.validation = 1
        /\ train_config.num_val_batches = 2
        /\ Len(hist.valCalls[r]) = 2
        /\ pc[r] = "forward"
        /\ hist.fetched[r] = <<1, 1>>

\* rank r's step fetches the first validation batch of a validate call
FirstFetch(r) ==
    pc[r] = "val_loop" /\ hist.fetched[r] = <<>> /\ hist'.fetched[r] # <<>>

\* rank r's step fetches a later validation batch of a validate call
LaterFetch(r) ==
    /\ pc[r] = "val_loop" /\ hist.fetched[r] # <<>>
    /\ hist'.fetched[r] # hist.fetched[r]

\* the iterator train made at line 277 has yielded every batch of the loader
TrainIteratorExhausted(r) ==
    /\ calls[r].trained /\ pc[r] \notin {"idle", "raised"}
    /\ loc[r].val_iter >= data_loaders.validation

\* what C11 says of one step of rank r
RebindingStep(r) ==
    /\ TrainIteratorExhausted(r) => loc'[r].val_iter = loc[r].val_iter
    /\ (TrainIteratorExhausted(r) /\ FirstFetch(r)) =>
          /\ loc'[r].v_fresh
          /\ hist'.fetched[r] = <<1>>
    /\ (loc[r].v_fresh /\ LaterFetch(r)) =>
          hist'.fetched[r] =
             Append(hist.fetched[r],
                    (hist.fetched[r][Len(hist.fetched[r])]
                        % data_loaders.validation) + 1)

\* C11: with a non-empty validation loader, the iterator train holds stays
\* exhausted once it is exhausted (validate binds the new iterator to its own
\* name only); every later validate call of the run therefore recreates an
\* iterator at its first fetch and reads the first batch of the loader, and
\* goes on from there within the call, wherever the previous call stopped.
C11_ValidateRestartsFromFirstBatch ==
    [][ data_loaders.validation >= 1 => \A r \in Ranks : RebindingStep(r) ]_vars

\* C11 witness: a loader of two batches read three per call; the first call
\* read 1, 2 and, from a new iterator, 1; the second call has read 1, 2, 1
\* again (not 2, 1, 2), and the iterator train holds is still the exhausted one
C11_Witness ==
    \E r \in Ranks :
        /\ data_loaders.validation = 2
        /\ train_config.num_val_batches = 3
        /\ Len(hist.valCalls[r]) = 2
        /\ pc[r] = "forward"
        /\ hist.fetched[r] = <<1, 2, 1>>
        /\ loc[r].val_iter = 2

\* the training batches rank r has started in this run
BatchesStarted(r) ==
    self[r].train_log.rows + (IF pc[r] \in BatchPcs THEN 1 ELSE 0)

\* C4: validate has been called exactly once for each started training batch
\* whose count of already trained batches (over all epochs) is a multiple of
\* val_interval, in that order, and at no other point.
C4_ValidateOnInterval ==
    \A r \in Ranks :
        pc[r] # "raised" =>
            LET vi == train_config.val_interval
                due == (BatchesStarted(r) + vi - 1) \div vi
            IN  hist.valCalls[r] = [k \in 1 .. due |-> (k - 1) * vi]

\* C4 witness: two epochs of one batch with val_interval 2: the first batch of
\* the second epoch was trained without a validation
C4_Witness ==
    \E r \in Ranks :
        /\ train_config.val_interval = 2
        /\ data_loaders.train = 1
        /\ self[r].train_log.rows = 2
        /\ hist.valCalls[r] = <<0>>

EventRank(e) ==
    CASE e = "validate" -> 1 [] e = "save_BEST" -> 2 [] e = "save" -> 3
      [] e = "forward" -> 4 [] e = "backward" -> 5

Events(r) == { hist.batchLog[r][k] : k \in 1 .. Len(hist.batchLog[r]) }

\* C5 as claimed: a validation performed for a training batch comes after that
\* batch's backward step.
C5_ValidateAfterBackward ==
    \A r \in Ranks : pc[r] \in ValidatePcs => "backward" \in Events(r)

\* C5 as amended: within the processing of a training batch the validation for
\* that batch and the checkpoints it writes come first, then forward, then
\* backward; backward never runs without the batch's forward before it.
C5_ValidateThenForwardThenBackward ==
    \A r \in Ranks :
        LET log == hist.batchLog[r] IN
        /\ \A i, j \in 1 .. Len(log) :
              i < j => EventRank(log[i]) < EventRank(log[j])
        /\ "backward" \in Events(r) => "forward" \in Events(r)
        /\ ({"save_BEST", "save"} \cap Events(r) # {}) => "validate" \in Events(r)
        /\ pc[r] \in ValidatePcs => Events(r) = {"validate"}

\* C5 witness: a batch with a validation that saved both checkpoints, then its
\* forward and its backward
C5_Witness ==
    \E r \in Ranks :
        hist.batchLog[r] = <<"validate", "save_BEST", "save", "forward", "backward">>

\* the local means every rank computed for the validation rank 0 is recording
LocalLosses == [q \in 1 .. ngpus |-> Head(hist.pending[q - 1]).loss]
LocalAccuracies == [q \in 1 .. ngpus |-> Head(hist.pending[q - 1]).accuracy]

\* a row is appended to the validation log
LogStep == val_log'.rows = val_log.rows + 1

\* what C6 says of one step
AggregationStep ==
    /\ RecordStep(0) =>
          /\ \A q \in Ranks : hist.pending[q] # <<>>
          /\ LogStep
          /\ val_log'.last.loss = NpMean(LocalLosses)
          /\ val_log'.last.accuracy = NpMean(LocalAccuracies)
          /\ self'[0].best_validation_loss =
                RMin(self[0].best_validation_loss, NpMean(LocalLosses))
    /\ LogStep => RecordStep(0)
    /\ \A r \in Ranks \ {0} :
          pc'[r] # "epoch_loop" =>
              self'[r].best_validation_loss = self[r].best_validation_loss

\* C6: in a distributed run rank 0 aggregates only when every rank has handed
\* in the local means of this validate call; the loss and accuracy it compares
\* with best_validation_loss and logs are the means over all ranks' local
\* values; the rows of the validation log are those of rank 0's validate calls;
\* and no other rank changes best_validation_loss or saves a checkpoint inside
\* validate.
C6_RankZeroAggregatesAllRanks ==
    /\ [][AggregationStep]_vars
    /\ [](\A f \in DOMAIN hist.writers : \A w \in hist.writers[f] :
             w[2] = "validate" => w[1] = 0)

\* C6 witness: two ranks with local losses 1 and 150 (in units of 1.0e8), and
\* the logged loss is their mean 151/2, the best so far
C6_Witness ==
    /\ ngpus = 2
    /\ val_log.rows >= 1
    /\ val_log.last.loss = [n |-> 151, d |-> 2]
    /\ val_log.last.saved_best = 1
    /\ Filename("BEST") \in DOMAIN files

\* evaluate has ended on rank r, by returning or by raising
EvaluateEnded(r) == calls[r].evaluated /\ pc[r] \in {"idle", "raised"}

\* C7 as claimed: once evaluate has ended, every batch of the test loader has
\* had exactly one Gradient entry for each of the 4 class labels.
C7_OneGradientPerLabelPerBatch ==
    \A r \in Ranks :
        EvaluateEnded(r) =>
            /\ Len(hist.gradCalls[r]) = data_loaders.test
            /\ \A b \in 1 .. Len(hist.gradCalls[r]) :
                  \A c \in 0 .. (NumClasses - 1) : hist.gradCalls[r][b][c] = 1

\* C8 as claimed: evaluate on rank 0 over a non-empty test loader ends by
\* returning, with the six array files saved and every batch processed.
C8_EvaluateSavesSixArrays ==
    (EvaluateEnded(0) /\ data_loaders.test >= 1) =>
        /\ pc[0] = "idle"
        /\ arrays = SavedArrays
        /\ Cardinality(arrays) = 6
        /\ loc[0].eval_iterations = data_loaders.test

\* the dict a correct save_state of rank 0 writes in this state
ExpectedCheckpoint ==
    [global_step |-> self[0].iteration,
     optimizer   |-> self[0].optimizer,
     state_dict  |-> self[0].weights]

SameFile(f) ==
    /\ f \in DOMAIN files' <=> f \in DOMAIN files
    /\ f \in DOMAIN files => files'[f] = files[f]

\* C9: in every rank-0 validate call that returns, the BEST file is written and
\* the logged saved_best is 1 exactly when the call's loss is strictly below
\* best_validation_loss on entry, otherwise the flag is 0 and the BEST file is
\* as it was; the unsuffixed file is written exactly when checkpointing is
\* true, and never stands for, or replaces, the BEST file.
C9_BestAndLatest ==
    [][ LogStep =>
          LET loss == val_log'.last.loss
              better == RLess(loss, self[0].best_validation_loss)
              best == dirpath \o model_name \o "BEST.pth"
              latest == dirpath \o model_name \o ".pth"
          IN  /\ val_log'.last.saved_best = (IF better THEN 1 ELSE 0)
              /\ better => /\ best \in DOMAIN files'
                            /\ files'[best] = ExpectedCheckpoint
              /\ ~better => SameFile(best)
              /\ train_config.checkpointing =>
                    /\ latest \in DOMAIN files'
                    /\ files'[latest] = ExpectedCheckpoint
              /\ ~train_config.checkpointing => SameFile(latest)
              /\ \A f \in DOMAIN files \ {best, latest} : SameFile(f)
      ]_vars

\* C9 witness: a validation that was not the best so far wrote the unsuffixed
\* file and left an older BEST file in place
C9_Witness ==
    /\ val_log.rows >= 2
    /\ val_log.last.saved_best = 0
    /\ train_config.checkpointing
    /\ Filename("BEST") \in DOMAIN files
    /\ Filename("") \in DOMAIN files
    /\ files[Filename("BEST")].global_step < files[Filename("")].global_step
    /\ files[Filename("")].global_step = val_log.last.iteration

\* the epochs whose end-of-epoch scheduler step (lines 333-334) rank r has passed
EpochsStepped(r) ==
    IF pc[r] \in BatchPcs \cup {"batch_loop", "epoch_end"}
    THEN loc[r].epoch_it - 1 ELSE loc[r].epoch_it

\* the epochs whose end-of-epoch save (lines 336-337) rank r has passed
EpochsSaved(r) ==
    IF pc[r] \in BatchPcs \cup {"batch_loop", "epoch_end", "epoch_save"}
    THEN loc[r].epoch_it - 1 ELSE loc[r].epoch_it

EpochFile(k) == dirpath \o model_name \o "_epoch_" \o ToString(k) \o ".pth"

WroteInTrain(r, f) ==
    f \in DOMAIN hist.writers /\ <<r, "train">> \in hist.writers[f]

\* C10: a configured scheduler has been stepped once for every epoch whose
\* batches are done and never during the batches of an epoch; the epoch-numbered
\* checkpoints a rank has saved are those of the epochs, counted from 1, that
\* are multiples of save_interval and whose scheduler step is behind it; and
\* without a save_interval no epoch-numbered file exists.
C10_EndOfEpoch ==
    \A r \in Ranks :
        pc[r] # "raised" =>
            /\ self[r].scheduler.configured =>
                  self[r].scheduler.last_epoch = EpochsStepped(r)
            /\ \A k \in 1 .. MaxEpochs :
                  WroteInTrain(r, EpochFile(k)) <=>
                      /\ train_config.has_save_interval
                      /\ k % train_config.save_interval = 0
                      /\ k <= EpochsSaved(r)
            /\ ~train_config.has_save_interval =>
                  \A k \in 1 .. MaxEpochs : EpochFile(k) \notin DOMAIN files

\* C10 witness: two epochs with save_interval 2 and a scheduler: two scheduler
\* steps, a checkpoint for epoch 2 and none for epoch 1
C10_Witness ==
    \E r \in Ranks :
        /\ calls[r].trained /\ pc[r] = "idle"
        /\ train_config.epochs = 2
        /\ train_config.has_save_interval /\ train_config.save_interval = 2
        /\ self[r].scheduler.last_epoch = 2
        /\ EpochFile(2) \in DOMAIN files
        /\ EpochFile(1) \notin DOMAIN files
        /\ files[EpochFile(2)].optimizer.lr = 2

\* the ranks that have written file f
WritersOf(f) == { w[1] : w \in hist.writers[f] }

\* C12 as claimed: in a multi-process run every checkpoint file written during
\* train (BEST, latest, epoch-numbered) has rank 0 as its only writer, so no
\* two processes write the same file.
C12_OnlyRankZeroWritesCheckpoints ==
    is_distributed =>
        \A f \in DOMAIN hist.writers :
            /\ WritersOf(f) \subseteq {0}
            /\ Cardinality(WritersOf(f)) <= 1

\* where a rank is inside train
TrainPcs == BatchPcs \cup {"epoch_loop", "batch_loop", "epoch_end", "epoch_save"}

\* the training batches rank r's train run has put through forward and backward
BatchesTrained(r) == self[r].train_log.rows

\* what C13 says of one step (a step is one rank's, and changes its pc when
\* it writes a file)
GlobalStepStep ==
    \A r \in Ranks :
        \* a checkpoint written inside train
        /\ (pc[r] \in TrainPcs /\ pc'[r] # pc[r]) =>
              \A f \in DOMAIN files' :
                  (f \notin DOMAIN files \/ files'[f] # files[f]) =>
                      /\ files'[f].global_step = BatchesTrained(r)
                      /\ files'[f].state_dict.updates = BatchesTrained(r)
        \* once per training batch, and not between epochs
        /\ (pc[r] \in TrainPcs /\ pc'[r] \in TrainPcs) =>
              self'[r].iteration =
                  IF pc[r] = "backward" /\ pc'[r] # "backward"
                  THEN self[r].iteration + 1
                  ELSE self[r].iteration
        \* train starts the counters again, whatever was restored
        /\ (pc[r] = "idle" /\ pc'[r] \in TrainPcs) =>
              /\ self'[r].iteration = 0
              /\ self'[r].best_validation_loss = InitialBestLoss

\* C13: every checkpoint written during a train run records as global_step
\* the number of batches the run has put through forward and backward, which
\* is the number of optimizer steps it has applied to the weights in the file;
\* iteration grows by one per training batch and by nothing else inside train,
\* epochs included; and train starts it at 0, and best_validation_loss at
\* 1.0e10, also after a restore.
C13_GlobalStepCountsBatches ==
    /\ [][GlobalStepStep]_vars
    /\ [](\A r \in Ranks :
             pc[r] \in TrainPcs =>
                 /\ self[r].iteration = BatchesTrained(r)
                 /\ self[r].weights.updates = BatchesTrained(r))

\* C13 witness: train after a restore of the pretrained checkpoint (global_step
\* 5, optimizer at 5 steps) has saved the file of epoch 2: global_step is 2,
\* the weights are the restored ones with 2 updates, the optimizer is at 7
C13_Witness ==
    /\ EpochFile(2) \in DOMAIN files
    /\ files[EpochFile(2)].global_step = 2
    /\ files[EpochFile(2)].state_dict = [origin |-> "pretrained", updates |-> 2]
    /\ files[EpochFile(2)].optimizer.steps = 7

=============================================================================
